---- MODULE Spec2Model ----
(***************************************************************************)
(* A model of the two concurrency engines of claude-code-discord-ui:       *)
(*   - the session coordinator (src/index.ts, src/claude/command.ts) and   *)
(*     the streaming client it drives (src/claude/client.ts);              *)
(*   - the process supervisor ShellManager (src/shell.ts).                 *)
(* Every step is one run-to-completion segment of the JavaScript event     *)
(* loop: the code between two awaits, or one callback.                     *)
(***************************************************************************)
EXTENDS Integers, Sequences, FiniteSets, TLC

\* ------------------------------------------------------------------ bounds
MaxInvocations == 2
MaxMessages == 2
MaxProcs == 2
MaxKills == 2
MaxCallbacks == 1
MaxWrites == 1
MaxOutput == 2
MaxIdLen == 2
MaxTicks == 3
MaxRawLen == 4

\* --------------------------------------------------------------- constants
Null == 0
Undefined == "undefined"

Invocations == 1..MaxInvocations

VARIABLES
  \* ---- session coordinator, src/index.ts
  claudeController,       \* let claudeController (index.ts:65): Null or the invocation whose controller it holds
  claudeSessionId,        \* let claudeSessionId (index.ts:67)
  deps_claudeController,  \* the claudeController field of the deps object (index.ts:88)
  bot,                    \* "running" | "stopping" (exit timer armed) | "exited"
  cancelReturn,           \* value returned by the last onClaudeCancel, "none" before the first
  \* ---- one entry per invocation of onClaude / onContinue
  ipc,                    \* position of the handler
  aborted,                \* controller.signal.aborted of the controller the invocation created
  call,                   \* arguments passed to sendToClaudeCode
  currentMessages,        \* executeWithErrorHandling: currentMessages
  currentSessionId,       \* executeWithErrorHandling: currentSessionId
  currentResponse,        \* executeWithErrorHandling: currentResponse
  modelUsed,              \* sendToClaudeCode: modelUsed
  queries,                \* number of claudeQuery streams the invocation started
  result,                 \* what sendToClaudeCode returned or threw
  queryOptions,           \* the queryOptions of each claudeQuery call, in order (client.ts:41-62)
  firstError,             \* the error the outer catch of sendToClaudeCode holds (client.ts:150)
  streamed,               \* what the iterator of the running attempt has yielded so far
  forwarded,              \* what onStreamJson was called with during the running attempt
  lateForward,            \* onStreamJson was called although the signal was aborted
  \* ---- ShellManager, src/shell.ts
  processIdCounter,       \* private processIdCounter (shell.ts:35)
  runningProcesses,       \* keys of the runningProcesses map (shell.ts:34)
  os,                     \* the OS process behind a handle: "none" | "running" | "exited"
  exitCode,               \* the exit code the OS reports, NoCode while running
  status,                 \* the child.status promise: "pending" | "resolved" | "rejected"
  epc,                    \* position of the execute call that issued the handle
  waiter,                 \* child.status.then(..).catch(..) is attached (shell.ts:113)
  completeCallbacks,      \* completeCallbacks, each callback by whether it throws
  errorCallbacks,         \* number of callbacks in errorCallbacks
  completeLog,            \* invocations of completion callbacks, in order
  errorLog,               \* invocations of error callbacks, in order
  stdinLog,               \* what was written to the process's stdin, in order
  sigLog,                 \* signals sent to the process, in order
  kpc,                    \* position of each killProcess call
  ktarget,                \* the handle a killProcess call was given
  ktimer,                 \* its SIGKILL timer: "none" | "armed" | "fired" | "cleared"
  kret,                   \* its return value: "none" | "true" | "false"
  inputReturn,            \* success of the last sendInput: "none" | "true" | "false"
  einput,                 \* the initial input an execute call is writing
  issued,                 \* the processIds execute assigned, in call order
  \* ---- output of a process, src/shell.ts:47-48, 77-110
  written,                \* the bytes the process has written to each stream
  pipe,                   \* the bytes of each stream that no reader has read yet
  output,                 \* let output (shell.ts:47), the accumulated text
  outputCallbacks,        \* number of callbacks in outputCallbacks (shell.ts:48)
  outputLog,              \* invocations of output callbacks, in order
  readerFailed,           \* the streams whose reader loop was left by a read error
  completeOutput,         \* the output value handed to the completion callbacks
  seenAtComplete,         \* whether a completion callback found its handle in the registry
  \* ---- a caller of getRunningProcesses, src/shell.ts:156-158
  held,                   \* the caller holds the value getRunningProcesses returned
  heldAt                  \* the handles that were registered when it was returned

claudeVars == <<claudeController, claudeSessionId, deps_claudeController, bot, cancelReturn,
                ipc, aborted, call, currentMessages, currentSessionId, currentResponse,
                modelUsed, queries, queryOptions, firstError, streamed, forwarded, lateForward, result>>

outVars == <<written, pipe, output, outputCallbacks, outputLog, readerFailed>>

listVars == <<held, heldAt>>

shellVars == <<processIdCounter, runningProcesses, os, exitCode, status, epc, waiter,
               completeCallbacks, errorCallbacks, completeLog, completeOutput, seenAtComplete, errorLog, stdinLog, sigLog,
               kpc, ktarget, ktimer, kret, inputReturn, einput, issued, outVars, listVars>>

vars == <<claudeVars, shellVars>>

\* ------------------------------------------------- strings as char sequences
\* String.prototype.includes (client.ts:114,152,178) on messages kept as
\* sequences of characters.
Includes(s, sub) ==
  \E k \in 0..(Len(s) - Len(sub)) : SubSeq(s, k + 1, k + Len(sub)) = sub

ExitedWithCode == <<"e","x","i","t","e","d"," ","w","i","t","h"," ","c","o","d","e"," ">>
ExitCode1 == <<"e","x","i","t"," ","c","o","d","e"," ","1">>
ExitedWithCode1 == ExitedWithCode \o <<"1">>
ExitedWithCode143 == ExitedWithCode \o <<"1","4","3">>

\* Errors the external stream can raise.
ErrAbort == [name |-> "AbortError", message |-> <<"a","b","o","r","t","e","d">>]
ErrExit1 == [name |-> "Error", message |-> ExitedWithCode \o <<"1">>]
ErrExit143 == [name |-> "Error", message |-> ExitedWithCode \o <<"1","4","3">>]
ErrExit2 == [name |-> "Error", message |-> ExitedWithCode \o <<"2">>]
StreamErrors == {ErrAbort, ErrExit1, ErrExit143, ErrExit2}
\* a process exit with a code that only starts with 1
ErrExit127 == [name |-> "Error", message |-> ExitedWithCode \o <<"1", "2", "7">>]
ClientErrors == StreamErrors \cup {ErrExit127}

\* `'total_cost_usd' in lastMessage` with lastMessage undefined (client.ts:145,169)
ErrTypeError == [name |-> "TypeError",
                 message |-> <<"C","a","n","n","o","t"," ","u","s","e"," ","'","i","n","'">>]
NoError == [name |-> "", message |-> <<>>]

\* The note appended to a failed retry's message (client.ts:182), as one token.
RetryNote == <<"\n", "\n", "both the default model and Sonnet 4 failed">>

\* ------------------------------------------------------------ stream events
\* SDKMessage, reduced to the fields client.ts reads.
EvSystem == [type |-> "system", text |-> "", session_id |-> "s1",
             total_cost_usd |-> Undefined, duration_ms |-> Undefined]
EvAssistant == [type |-> "assistant", text |-> "hi", session_id |-> Undefined,
                total_cost_usd |-> Undefined, duration_ms |-> Undefined]
EvResult == [type |-> "result", text |-> "", session_id |-> "s2",
             total_cost_usd |-> "c1", duration_ms |-> "d1"]
Events == {EvSystem, EvAssistant, EvResult}
\* an assistant message whose content has no text block (a tool call only):
\* filter/map/join at client.ts:84-89 gives ''
EvToolUse == [type |-> "assistant", text |-> "", session_id |-> Undefined,
              total_cost_usd |-> Undefined, duration_ms |-> Undefined]
ClientEvents == Events \cup {EvToolUse}

\* A session id argument is a string; undefined and '' are both falsy at
\* index.ts:131 and client.ts:36.
NoSession == <<>>
\* the backquote character, U+0060
Backtick == "U+0060"
SessionInputs == {NoSession, <<"s", "0">>}
\* what a caller of the exported sendToClaudeCode can pass
ClientSessionInputs ==
  SessionInputs \cup {<<" ", Backtick, "s", "0", Backtick, "\n">>, <<Backtick, Backtick>>}

\* Session identifiers as a user pastes them (sessionId of client.ts:18):
\* an identifier of characters that are neither whitespace nor backticks,
\* alone or inside backticks or inside a code fence, with whitespace around.
IdChars == {"s", "0"}
Identifiers == UNION {[1..n -> IdChars] : n \in 1..MaxIdLen}
Ticks(n) == [k \in 1..n |-> Backtick]
Pads == {<<>>} \cup {<<c>> : c \in {" ", "\t", "\n", "\r"}}
Newlines == {<<"\n">>, <<"\r", "\n">>}
Wrapped(id) ==
  {a \o id \o b : a \in Pads, b \in Pads}
    \cup {a \o Ticks(n) \o id \o Ticks(m) \o b :
            a \in Pads, b \in Pads, n \in 1..MaxTicks, m \in 1..MaxTicks}
    \cup {a \o Ticks(3) \o n1 \o id \o n2 \o Ticks(3) \o b :
            a \in Pads, b \in Pads, n1 \in Newlines, n2 \in Newlines}
PastedSessionInputs == UNION {Wrapped(id) : id \in Identifiers}
\* any string of at most MaxRawLen characters, each a blank, a line feed, a
\* backtick or an identifier character
RawChars == {" ", "\n", Backtick, "s"}
ArbitrarySessionInputs == UNION {[1..n -> RawChars] : n \in 1..MaxRawLen}
Prompt == "p"
WorkDir == "/work"
FallbackModelId == "claude-sonnet-4-20250514"

ModelDefault == "Default"
ModelFallback == "Claude Sonnet 4"
CancelMessage == "request was cancelled"
NoResponse == "no response"

NoCall == [prompt |-> "", sessionId |-> NoSession, continueMode |-> FALSE,
           onStreamJson |-> FALSE, handler |-> FALSE]
NoResult == [status |-> "none", response |-> "", sessionId |-> Undefined, cost |-> Undefined,
             duration |-> Undefined, modelUsed |-> "", error |-> NoError]

\* --------------------------------------------------- src/claude/client.ts
\* cleanSessionId (client.ts:4-11) on strings kept as sequences of characters.
Whitespace == {" ", "\t", "\n", "\r"}

Reverse(s) == [k \in 1..Len(s) |-> s[Len(s) + 1 - k]]

\* the longest run of characters of cs at the start of s, removed
RECURSIVE StripLeading(_, _)
StripLeading(s, cs) ==
  IF s # <<>> /\ Head(s) \in cs THEN StripLeading(Tail(s), cs) ELSE s

StripTrailing(s, cs) == Reverse(StripLeading(Reverse(s), cs))

\* String.prototype.trim
Trim(s) == StripTrailing(StripLeading(s, Whitespace), Whitespace)

\* the replace of client.ts:7: the backticks at the start and at the end
StripBackticks(s) == StripTrailing(StripLeading(s, {Backtick}), {Backtick})

\* the replace of client.ts:8: a code fence of three backticks at the start,
\* with the newline after it, and at the end, with the newline before it
StripFence(s) ==
  LET fence == <<Backtick, Backtick, Backtick>>
      a == IF Len(s) >= 3 /\ SubSeq(s, 1, 3) = fence
           THEN (IF Len(s) >= 4 /\ s[4] = "\n" THEN SubSeq(s, 5, Len(s))
                 ELSE SubSeq(s, 4, Len(s)))
           ELSE s
      n == Len(a) IN
  IF n >= 3 /\ SubSeq(a, n - 2, n) = fence
  THEN (IF n >= 4 /\ a[n - 3] = "\n" THEN SubSeq(a, 1, n - 4) ELSE SubSeq(a, 1, n - 3))
  ELSE a

\* the replace of client.ts:9: every carriage return and line feed
RemoveNewlines(s) == SelectSeq(s, LAMBDA c : c \notin {"\r", "\n"})

cleanSessionIdTrimOnly(sessionId) == Trim(sessionId)
cleanSessionId(sessionId) ==
  Trim(RemoveNewlines(StripFence(StripBackticks(Trim(sessionId)))))

\* queryOptions of one attempt (client.ts:36, 41-53): continue with
\* continueMode, else resume with a non-empty cleaned session id, and the
\* model only on the retry. Absent options are Undefined.
QueryOptionsResumeAlways(c, useRetryModel) ==
  [prompt |-> c.prompt,
   cwd |-> WorkDir,
   continue |-> c.continueMode,
   resume |-> IF c.sessionId # NoSession THEN cleanSessionId(c.sessionId) ELSE NoSession,
   model |-> IF useRetryModel THEN FallbackModelId ELSE Undefined]
QueryOptions(c, useRetryModel) ==
  LET cleanedSessionId == IF c.sessionId # NoSession THEN cleanSessionId(c.sessionId)
                          ELSE NoSession IN
  [prompt |-> c.prompt,
   cwd |-> WorkDir,
   continue |-> c.continueMode,
   resume |-> IF cleanedSessionId # NoSession /\ ~c.continueMode
              THEN cleanedSessionId ELSE NoSession,
   model |-> IF useRetryModel THEN FallbackModelId ELSE Undefined]

\* The catch of executeWithErrorHandling and of the retry: is the failure
\* one caused by cancellation?
IsAbortClassByName(error, signalAborted) == error.name = "AbortError"
IsAbortClass(error, signalAborted) ==
  \/ error.name = "AbortError"
  \/ signalAborted
  \/ Includes(error.message, ExitedWithCode143)

\* The outer catch of sendToClaudeCode: the failure that is retried.
IsRateClassAny(error) == TRUE
IsRateClass(error) ==
  \/ Includes(error.message, ExitCode1)
  \/ Includes(error.message, ExitedWithCode1)

\* { response: "リクエストがキャンセルされました", modelUsed }
CancelledResult(m) ==
  [status |-> "cancelled", response |-> CancelMessage, sessionId |-> Undefined,
   cost |-> Undefined, duration |-> Undefined, modelUsed |-> m, error |-> NoError]

ThrownResult(e, m) ==
  [status |-> "error", response |-> "", sessionId |-> Undefined, cost |-> Undefined,
   duration |-> Undefined, modelUsed |-> m, error |-> e]

\* What executeWithErrorHandling returns from its catch.
AbortedReturn == [messages |-> <<>>, response |-> "", sessionId |-> Undefined, aborted |-> TRUE]

\* sendToClaudeCode on the value r returned by an attempt: the result it returns,
\* or the TypeError raised by reading the last message of an empty list.
CompleteIgnoringAbort(r, m) ==
  IF Len(r.messages) = 0 THEN ThrownResult(ErrTypeError, m)
  ELSE [status |-> "ok",
        response |-> IF r.response = "" THEN NoResponse ELSE r.response,
        sessionId |-> r.sessionId,
        cost |-> r.messages[Len(r.messages)].total_cost_usd,
        duration |-> r.messages[Len(r.messages)].duration_ms,
        modelUsed |-> m,
        error |-> NoError]
Complete(r, m) ==
  IF r.aborted THEN CancelledResult(m)
  ELSE IF Len(r.messages) = 0 THEN ThrownResult(ErrTypeError, m)
  ELSE LET lastMessage == r.messages[Len(r.messages)] IN
       [status |-> "ok",
        response |-> IF r.response = "" THEN NoResponse ELSE r.response,
        sessionId |-> r.sessionId,
        cost |-> lastMessage.total_cost_usd,
        duration |-> lastMessage.duration_ms,
        modelUsed |-> m,
        error |-> NoError]

\* executeWithErrorHandling when its stream raises e: the abort classes are
\* turned into the aborted return value, everything else is rethrown.
ExecCatch(e, signalAborted) ==
  IF IsAbortClass(e, signalAborted)
  THEN [thrown |-> FALSE, value |-> AbortedReturn, error |-> NoError]
  ELSE [thrown |-> TRUE, value |-> AbortedReturn, error |-> e]

\* sendToClaudeCode after the first attempt ended with o (a return or a throw):
\* retry with the fallback model, or the final result.
AfterFirstAsFallback(o, signalAborted) ==
  LET res == IF o.thrown THEN ThrownResult(o.error, ModelFallback)
             ELSE Complete(o.value, ModelFallback) IN
  IF res.status = "error" /\ IsRateClass(res.error)
  THEN [retry |-> TRUE, result |-> res]
  ELSE [retry |-> FALSE, result |-> res]
AfterFirst(o, signalAborted) ==
  LET res == IF o.thrown THEN ThrownResult(o.error, ModelDefault)
             ELSE Complete(o.value, ModelDefault) IN
  IF res.status = "error" /\ IsRateClass(res.error)
  THEN [retry |-> TRUE, result |-> res]
  ELSE [retry |-> FALSE, result |-> res]

\* sendToClaudeCode after the retry ended with o.
AfterRetryAsDefault(o, signalAborted) ==
  [retry |-> FALSE,
   result |-> IF o.thrown THEN ThrownResult(o.error, ModelDefault)
              ELSE Complete(o.value, ModelDefault)]
AfterRetry(o, signalAborted) ==
  LET res == IF o.thrown THEN ThrownResult(o.error, ModelFallback)
             ELSE Complete(o.value, ModelFallback) IN
  IF res.status # "error" THEN [retry |-> FALSE, result |-> res]
  ELSE IF IsAbortClass(res.error, signalAborted)
       THEN [retry |-> FALSE, result |-> CancelledResult(ModelFallback)]
       ELSE [retry |-> FALSE,
             result |-> [res EXCEPT !.error.message = @ \o RetryNote]]

AfterAttempt(attempt, o, signalAborted) ==
  IF attempt = "attempt1" THEN AfterFirst(o, signalAborted) ELSE AfterRetry(o, signalAborted)

Streaming(i) == ipc[i] \in {"attempt1", "attempt2"}
InFlight(i) == ipc[i] \in {"defer", "attempt1", "attempt2"}

\* AbortController.abort() on the controller held in c (Null: no controller).
Abort(ab, c) == IF c = Null THEN ab ELSE [ab EXCEPT ![c] = TRUE]

\* Lines 48-53 / 94-99 of command.ts: cancel what deps.claudeController holds,
\* then install a fresh controller through setClaudeController.
StartNew(i, args) ==
  /\ bot # "exited"
  /\ ipc[i] = "idle"
  /\ \A j \in Invocations : j < i => ipc[j] # "idle"
  /\ aborted' = Abort(aborted, deps_claudeController)
  /\ claudeController' = i
  /\ ipc' = [ipc EXCEPT ![i] = "defer"]
  /\ call' = [call EXCEPT ![i] = args]
  /\ UNCHANGED <<claudeSessionId, deps_claudeController, bot, cancelReturn, currentMessages,
                 currentSessionId, currentResponse, modelUsed, queries, queryOptions, firstError, streamed, forwarded, lateForward, result>>
  /\ UNCHANGED shellVars

\* onClaude up to its first await (command.ts:46-56).
OnClaude(i, sessionId) ==
  StartNew(i, [prompt |-> Prompt, sessionId |-> sessionId, continueMode |-> FALSE,
               onStreamJson |-> TRUE, handler |-> TRUE])

\* onContinue up to its first await (command.ts:92-104).
OnContinue(i) ==
  StartNew(i, [prompt |-> Prompt, sessionId |-> NoSession, continueMode |-> TRUE,
               onStreamJson |-> TRUE, handler |-> TRUE])

\* deferReply and editReply are done; sendToClaudeCode is called and its first
\* attempt creates the stream (command.ts:69, client.ts:129, 62).
StartStream(i) ==
  /\ bot # "exited"
  /\ ipc[i] = "defer"
  /\ ipc' = [ipc EXCEPT ![i] = "attempt1"]
  /\ modelUsed' = [modelUsed EXCEPT ![i] = ModelDefault]
  /\ queries' = [queries EXCEPT ![i] = 1]
  /\ queryOptions' = [queryOptions EXCEPT ![i] = <<QueryOptions(call[i], FALSE)>>]
  /\ UNCHANGED <<claudeController, claudeSessionId, deps_claudeController, bot, cancelReturn,
                 aborted, call, currentMessages, currentSessionId, currentResponse, result,
                 firstError, streamed, forwarded, lateForward>>
  /\ UNCHANGED shellVars

\* A caller of the exported sendToClaudeCode (index.ts:55) other than the
\* handlers calls it with a controller of its own; the first attempt creates
\* the stream (client.ts:129, 62).
SendToClaudeCode(i, sessionId, continueMode, onStreamJson) ==
  LET args == [prompt |-> Prompt, sessionId |-> sessionId, continueMode |-> continueMode,
               onStreamJson |-> onStreamJson, handler |-> FALSE] IN
  /\ bot # "exited"
  /\ ipc[i] = "idle"
  /\ \A j \in Invocations : j < i => ipc[j] # "idle"
  /\ call' = [call EXCEPT ![i] = args]
  /\ ipc' = [ipc EXCEPT ![i] = "attempt1"]
  /\ modelUsed' = [modelUsed EXCEPT ![i] = ModelDefault]
  /\ queries' = [queries EXCEPT ![i] = 1]
  /\ queryOptions' = [queryOptions EXCEPT ![i] = <<QueryOptions(args, FALSE)>>]
  /\ UNCHANGED <<claudeController, claudeSessionId, deps_claudeController, bot, cancelReturn,
                 aborted, currentMessages, currentSessionId, currentResponse, result,
                 firstError, streamed, forwarded, lateForward>>
  /\ UNCHANGED shellVars

\* That caller aborts the controller it passed.
AbortCall(i) ==
  /\ bot # "exited"
  /\ Streaming(i)
  /\ ~call[i].handler
  /\ ~aborted[i]
  /\ aborted' = [aborted EXCEPT ![i] = TRUE]
  /\ UNCHANGED <<claudeController, claudeSessionId, deps_claudeController, bot, cancelReturn,
                 ipc, call, currentMessages, currentSessionId, currentResponse, modelUsed,
                 queries, queryOptions, firstError, streamed, forwarded, lateForward, result>>
  /\ UNCHANGED shellVars

\* The attempt of invocation i ended with o (ExecCatch's shape): sendToClaudeCode
\* either starts the retry (client.ts:152-157) or settles, and when it returns
\* the handler stores the session id and clears the controller
\* (command.ts:85-86); when it throws the handler is left by the exception.
Settle(i, o) ==
  LET next == AfterAttempt(ipc[i], o, aborted[i]) IN
  /\ currentMessages' = [currentMessages EXCEPT ![i] = <<>>]
  /\ currentSessionId' = [currentSessionId EXCEPT ![i] = Undefined]
  /\ currentResponse' = [currentResponse EXCEPT ![i] = ""]
  /\ streamed' = [streamed EXCEPT ![i] = <<>>]
  /\ forwarded' = [forwarded EXCEPT ![i] = <<>>]
  /\ IF next.retry
     THEN /\ ipc' = [ipc EXCEPT ![i] = "attempt2"]
          /\ modelUsed' = [modelUsed EXCEPT ![i] = ModelFallback]
          /\ queries' = [queries EXCEPT ![i] = @ + 1]
          /\ queryOptions' = [queryOptions EXCEPT ![i] = Append(@, QueryOptions(call[i], TRUE))]
          /\ firstError' = [firstError EXCEPT ![i] = next.result.error]
          /\ UNCHANGED <<result, claudeSessionId, claudeController>>
     ELSE /\ ipc' = [ipc EXCEPT ![i] = "done"]
          /\ result' = [result EXCEPT ![i] = next.result]
          /\ firstError' = [firstError EXCEPT ![i] = NoError]
          /\ UNCHANGED <<modelUsed, queries, queryOptions>>
          /\ IF next.result.status = "error" \/ ~call[i].handler
             THEN UNCHANGED <<claudeSessionId, claudeController>>
             ELSE /\ claudeSessionId' = next.result.sessionId
                  /\ claudeController' = Null
  /\ UNCHANGED <<deps_claudeController, bot, cancelReturn, aborted, call>>
  /\ UNCHANGED shellVars

\* What the loop body does with one message while the signal is not aborted
\* (client.ts:74-100).
TextOf(ev) == IF ev.type = "assistant" THEN ev.text ELSE ""

\* Is the message of this turn of the loop handed to onStreamJson? The check
\* of the signal and its break come first (client.ts:69-72, 77-79).
ForwardsAlways(c, signalAborted) == c.onStreamJson
Forwards(c, signalAborted) == c.onStreamJson /\ ~signalAborted

\* if ('session_id' in message && message.session_id) currentSessionId = ...
\* (client.ts:97-100)
SessionIdOfLatest(cur, ev) == ev.session_id
SessionIdAfter(cur, ev) == IF ev.session_id # Undefined THEN ev.session_id ELSE cur

\* The stream yields ev (client.ts:67-101).
StreamEvent(i, ev) ==
  /\ bot # "exited"
  /\ Streaming(i)
  /\ IF aborted[i]
     THEN /\ Settle(i, [thrown |-> FALSE, error |-> NoError,
                        value |-> [messages |-> currentMessages[i],
                                   response |-> currentResponse[i],
                                   sessionId |-> currentSessionId[i],
                                   aborted |-> TRUE]])
          /\ lateForward' = [lateForward EXCEPT ![i] = @ \/ Forwards(call[i], aborted[i])]
     ELSE /\ Len(currentMessages[i]) < MaxMessages
          /\ forwarded' = IF Forwards(call[i], aborted[i])
                          THEN [forwarded EXCEPT ![i] = Append(@, ev)]
                          ELSE forwarded
          /\ UNCHANGED lateForward
          /\ currentMessages' = [currentMessages EXCEPT ![i] = Append(@, ev)]
          /\ currentResponse' =
               IF ev.type = "assistant" /\ ~call[i].onStreamJson
               THEN [currentResponse EXCEPT ![i] = TextOf(ev)]
               ELSE currentResponse
          /\ currentSessionId' =
               [currentSessionId EXCEPT ![i] = SessionIdAfter(@, ev)]
          /\ streamed' = [streamed EXCEPT ![i] = Append(@, ev)]
          /\ UNCHANGED <<claudeController, claudeSessionId, deps_claudeController, bot,
                         cancelReturn, ipc, aborted, call, modelUsed, queries, queryOptions,
                         firstError, result>>
          /\ UNCHANGED shellVars

\* The stream is exhausted (client.ts:103-108).
StreamEnd(i) ==
  /\ bot # "exited"
  /\ Streaming(i)
  /\ Settle(i, [thrown |-> FALSE, error |-> NoError,
                value |-> [messages |-> currentMessages[i],
                           response |-> currentResponse[i],
                           sessionId |-> currentSessionId[i],
                           aborted |-> aborted[i]]])
  /\ UNCHANGED lateForward

\* The stream raises e (client.ts:110-124).
StreamThrow(i, e) ==
  /\ bot # "exited"
  /\ Streaming(i)
  /\ Settle(i, ExecCatch(e, aborted[i]))
  /\ UNCHANGED lateForward

\* onClaudeCancel (command.ts:143-154).
OnClaudeCancel ==
  /\ bot # "exited"
  /\ IF deps_claudeController = Null
     THEN /\ cancelReturn' = "false"
          /\ UNCHANGED <<aborted, claudeController, claudeSessionId>>
     ELSE /\ aborted' = Abort(aborted, deps_claudeController)
          /\ claudeController' = Null
          /\ claudeSessionId' = Undefined
          /\ cancelReturn' = "true"
  /\ UNCHANGED <<deps_claudeController, bot, ipc, call, currentMessages, currentSessionId,
                 currentResponse, modelUsed, queries, queryOptions, firstError, streamed, forwarded, lateForward, result>>
  /\ UNCHANGED shellVars

\* ------------------------------------------------------------ src/shell.ts
Procs == 1..MaxProcs
Kills == 1..MaxKills
\* handles a caller can pass: the issued ones and one that is never issued
HandleInputs == 1..(MaxProcs + 1)
\* with a single process: its handle, and a handle that is never issued
OneProcHandles == {1, MaxProcs + 1}
Texts == {"y"}
NoCode == -1
ExitCodes == {0, 137, 143}
NoInput == ""

\* child.stdout and child.stderr (shell.ts:57-58)
Streams == {"stdout", "stderr"}
NoOutput == <<"none">>
\* What a process writes in one go: an ASCII character (one byte) or a
\* two-byte UTF-8 character.
Writes == {<<"61">>, <<"C3", "A9">>}

\* decoder.decode(value) (shell.ts:87,103): each chunk is decoded by itself.
\* A lead byte whose continuation byte is not in the chunk, and a continuation
\* byte without its lead byte, come out as U+FFFD.
RECURSIVE Decode(_)
Decode(bytes) ==
  IF bytes = <<>> THEN <<>>
  ELSE IF bytes[1] = "61" THEN <<"a">> \o Decode(Tail(bytes))
  ELSE IF bytes[1] = "C3" /\ Len(bytes) >= 2 /\ bytes[2] = "A9"
       THEN <<"é">> \o Decode(Tail(Tail(bytes)))
  ELSE <<"U+FFFD">> \o Decode(Tail(bytes))

\* outputCallbacks.forEach(cb => cb(text)) (shell.ts:89,105)
OutputCalls(n, stream, text) == [k \in 1..n |-> [cb |-> k, stream |-> stream, text |-> text]]

\* this.runningProcesses.get(processId) finds a process (shell.ts:139-140, 164-165)
RegistryHasAnyIssued(registry, h) == h \in registry \/ (h \in Procs /\ os[h] # "none")
RegistryHas(registry, h) == h \in registry

\* const processId = ++this.processIdCounter (shell.ts:46)
NextProcessIdBySize(counter, registry) == Cardinality(registry) + 1
NextProcessId(counter, registry) == counter + 1

\* The codes an exit can report: the command's own, or 128 + the signal that
\* ended it.
CanExitWith(p, code) ==
  \/ code = 0
  \/ code = 143 /\ \E k \in DOMAIN sigLog[p] : sigLog[p][k] = "SIGTERM"
  \/ code = 137 /\ \E k \in DOMAIN sigLog[p] : sigLog[p][k] = "SIGKILL"

\* child.kill(sig) (shell.ts:171,175,195): Deno raises once the status promise
\* has resolved; otherwise the signal goes out.
KillThrows(p) == status[p] = "resolved"
SignalEveryone(log, p, sig) == [q \in DOMAIN log |-> Append(log[q], sig)]
SignalGracefulOnly(log, p, sig) ==
  IF KillThrows(p) \/ sig = "SIGKILL" THEN log ELSE [log EXCEPT ![p] = Append(@, sig)]
Signal(log, p, sig) == IF KillThrows(p) THEN log ELSE [log EXCEPT ![p] = Append(@, sig)]

\* stdin.write(text + '\n') (shell.ts:74,145)
WriteStdinRaw(log, p, text) == [log EXCEPT ![p] = Append(@, <<text>>)]
WriteStdin(log, p, text) == [log EXCEPT ![p] = Append(@, <<text, "\n">>)]

\* completeCallbacks.forEach(cb => cb(status.code, output)) (shell.ts:115): the
\* callbacks run in order up to and including the first that throws.
FirstThrow(cbs) ==
  IF \E k \in DOMAIN cbs : cbs[k]
  THEN CHOOSE k \in DOMAIN cbs : cbs[k] /\ \A j \in 1..(k - 1) : ~cbs[j]
  ELSE 0

CompleteCallsTwice(cbs, code) ==
  LET n == IF FirstThrow(cbs) = 0 THEN Len(cbs) ELSE FirstThrow(cbs)
      once == [k \in 1..n |-> [cb |-> k, code |-> code]] IN
  once \o once

CompleteCalls(cbs, code) ==
  LET n == IF FirstThrow(cbs) = 0 THEN Len(cbs) ELSE FirstThrow(cbs) IN
  [k \in 1..n |-> [cb |-> k, code |-> code]]

\* errorCallbacks.forEach(cb => cb(error)) (shell.ts:118)
ErrorCallsWithoutCause(n, error) == [k \in 1..n |-> [cb |-> k, error |-> "unknown"]]
ErrorCalls(n, error) == [k \in 1..n |-> [cb |-> k, error |-> error]]

\* this.runningProcesses.delete(processId) (shell.ts:114,117,181)
Delete(registry, p) == registry \ {p}

\* child.status.then(A).catch(B) (shell.ts:113-119) once the promise is settled
\* as st: A runs on "resolved", and B runs on "rejected" and when A throws.
\* A deletes the handle and then calls the completion callbacks, which find
\* the registry as the delete left it.
WaiterRuns(p, st) ==
  IF st = "resolved"
  THEN /\ completeLog' = [completeLog EXCEPT
                            ![p] = @ \o CompleteCalls(completeCallbacks[p], exitCode[p])]
       /\ completeOutput' = IF completeCallbacks[p] # <<>>
                            THEN [completeOutput EXCEPT ![p] = output[p]]
                            ELSE completeOutput
       /\ seenAtComplete' =
            IF completeCallbacks[p] # <<>>
            THEN [seenAtComplete EXCEPT
                    ![p] = IF RegistryHas(Delete(runningProcesses, p), p)
                           THEN "registered" ELSE "deregistered"]
            ELSE seenAtComplete
       /\ errorLog' = IF FirstThrow(completeCallbacks[p]) # 0
                      THEN [errorLog EXCEPT
                              ![p] = @ \o ErrorCalls(errorCallbacks[p], "callback threw")]
                      ELSE errorLog
  ELSE /\ errorLog' = [errorLog EXCEPT
                         ![p] = @ \o ErrorCalls(errorCallbacks[p], "wait failed")]
       /\ UNCHANGED <<completeLog, completeOutput, seenAtComplete>>

\* execute up to its first await or, without input, up to its return
\* (shell.ts:45-75, 113-133).
Execute(input) ==
  LET p == NextProcessId(processIdCounter, runningProcesses) IN
  /\ bot # "exited"
  /\ processIdCounter < MaxProcs
  /\ processIdCounter' = p
  /\ issued' = Append(issued, p)
  /\ os' = [os EXCEPT ![p] = "running"]
  /\ exitCode' = [exitCode EXCEPT ![p] = NoCode]
  /\ status' = [status EXCEPT ![p] = "pending"]
  /\ runningProcesses' = runningProcesses \cup {p}
  /\ einput' = [einput EXCEPT ![p] = input]
  /\ IF input # NoInput
     THEN /\ epc' = [epc EXCEPT ![p] = "writing"]
          /\ UNCHANGED waiter
     ELSE /\ epc' = [epc EXCEPT ![p] = "returned"]
          /\ waiter' = [waiter EXCEPT ![p] = TRUE]
  /\ UNCHANGED <<completeCallbacks, errorCallbacks, completeLog, completeOutput, seenAtComplete, errorLog, stdinLog, sigLog,
                 kpc, ktarget, ktimer, kret, inputReturn>>
  /\ UNCHANGED <<claudeVars, outVars, listVars>>

\* The initial write succeeded: execute starts the readers, attaches the exit
\* waiter and returns (shell.ts:74-133). A status that is settled by now runs
\* the waiter's handler at once, before the caller gets the hooks.
ExecuteWriteDone(p) ==
  /\ bot # "exited"
  /\ epc[p] = "writing"
  /\ os[p] = "running"
  /\ stdinLog' = WriteStdin(stdinLog, p, einput[p])
  /\ epc' = [epc EXCEPT ![p] = "returned"]
  /\ waiter' = [waiter EXCEPT ![p] = TRUE]
  /\ IF status[p] # "pending"
     THEN /\ runningProcesses' = runningProcesses \ {p}
          /\ WaiterRuns(p, status[p])
     ELSE UNCHANGED <<runningProcesses, completeLog, completeOutput, seenAtComplete, errorLog>>
  /\ UNCHANGED <<processIdCounter, os, exitCode, status, completeCallbacks, errorCallbacks,
                 sigLog, kpc, ktarget, ktimer, kret, inputReturn, einput, issued>>
  /\ UNCHANGED <<claudeVars, outVars, listVars>>

\* The initial write fails because the process is gone: the await at shell.ts:74
\* throws and execute rejects before it reaches shell.ts:113.
ExecuteWriteFail(p) ==
  /\ bot # "exited"
  /\ epc[p] = "writing"
  /\ os[p] = "exited"
  /\ epc' = [epc EXCEPT ![p] = "failed"]
  /\ UNCHANGED <<processIdCounter, runningProcesses, os, exitCode, status, waiter,
                 completeCallbacks, errorCallbacks, completeLog, completeOutput, seenAtComplete, errorLog, stdinLog, sigLog,
                 kpc, ktarget, ktimer, kret, inputReturn, einput, issued>>
  /\ UNCHANGED <<claudeVars, outVars, listVars>>

\* The caller registers a completion callback on the returned hook
\* (shell.ts:126-128); throws: whether the callback raises when called.
OnComplete(p, throws) ==
  /\ bot # "exited"
  /\ epc[p] = "returned"
  /\ Len(completeCallbacks[p]) < MaxCallbacks
  /\ completeCallbacks' = [completeCallbacks EXCEPT ![p] = Append(@, throws)]
  /\ UNCHANGED <<processIdCounter, runningProcesses, os, exitCode, status, epc, waiter,
                 errorCallbacks, completeLog, completeOutput, seenAtComplete, errorLog, stdinLog, sigLog,
                 kpc, ktarget, ktimer, kret, inputReturn, einput, issued>>
  /\ UNCHANGED <<claudeVars, outVars, listVars>>

\* The caller registers an error callback (shell.ts:129-131).
OnError(p) ==
  /\ bot # "exited"
  /\ epc[p] = "returned"
  /\ errorCallbacks[p] < MaxCallbacks
  /\ errorCallbacks' = [errorCallbacks EXCEPT ![p] = @ + 1]
  /\ UNCHANGED <<processIdCounter, runningProcesses, os, exitCode, status, epc, waiter,
                 completeCallbacks, completeLog, completeOutput, seenAtComplete, errorLog, stdinLog, sigLog,
                 kpc, ktarget, ktimer, kret, inputReturn, einput, issued>>
  /\ UNCHANGED <<claudeVars, outVars, listVars>>

\* The caller registers an output callback (shell.ts:123-125).
OnOutput(p) ==
  /\ bot # "exited"
  /\ epc[p] = "returned"
  /\ outputCallbacks[p] < MaxCallbacks
  /\ outputCallbacks' = [outputCallbacks EXCEPT ![p] = @ + 1]
  /\ UNCHANGED <<processIdCounter, runningProcesses, os, exitCode, status, epc, waiter,
                 completeCallbacks, errorCallbacks, completeLog, completeOutput, seenAtComplete, errorLog,
                 stdinLog, sigLog, kpc, ktarget, ktimer, kret, inputReturn, einput, issued>>
  /\ UNCHANGED <<written, pipe, output, outputLog, readerFailed>>
  /\ UNCHANGED <<claudeVars, listVars>>

\* The process writes bytes to one of its streams.
ProcWrite(p, stream, bytes) ==
  /\ os[p] = "running"
  /\ Len(written[p][stream]) + Len(bytes) <= MaxOutput
  /\ written' = [written EXCEPT ![p][stream] = @ \o bytes]
  /\ pipe' = [pipe EXCEPT ![p][stream] = @ \o bytes]
  /\ UNCHANGED <<processIdCounter, runningProcesses, os, exitCode, status, epc, waiter,
                 completeCallbacks, errorCallbacks, completeLog, completeOutput, seenAtComplete, errorLog,
                 stdinLog, sigLog, kpc, ktarget, ktimer, kret, inputReturn, einput, issued>>
  /\ UNCHANGED <<output, outputCallbacks, outputLog, readerFailed>>
  /\ UNCHANGED <<claudeVars, listVars>>

\* One turn of a reader loop (shell.ts:84-90, 100-106): reader.read() yields the
\* first n bytes waiting in the pipe; they are decoded, appended to output and
\* handed to every output callback registered so far.
ReaderRead(p, stream, n) ==
  LET value == SubSeq(pipe[p][stream], 1, n)
      text == Decode(value) IN
  /\ bot # "exited"
  /\ epc[p] = "returned"
  /\ stream \notin readerFailed[p]
  /\ n \in 1..Len(pipe[p][stream])
  /\ pipe' = [pipe EXCEPT ![p][stream] = SubSeq(@, n + 1, Len(@))]
  /\ output' = [output EXCEPT ![p] = @ \o text]
  /\ outputLog' = [outputLog EXCEPT ![p] = @ \o OutputCalls(outputCallbacks[p], stream, text)]
  /\ UNCHANGED <<processIdCounter, runningProcesses, os, exitCode, status, epc, waiter,
                 completeCallbacks, errorCallbacks, completeLog, completeOutput, seenAtComplete, errorLog,
                 stdinLog, sigLog, kpc, ktarget, ktimer, kret, inputReturn, einput, issued>>
  /\ UNCHANGED <<written, outputCallbacks, readerFailed>>
  /\ UNCHANGED <<claudeVars, listVars>>

\* reader.read() of one stream rejects (shell.ts:86,102): the catch around
\* that reader's loop logs the error and the loop is over (shell.ts:91-93,
\* 107-109). A mistaken variant first: one failure ending both loops.
ReadErrorStopsBoth(p, stream) ==
  /\ bot # "exited"
  /\ epc[p] = "returned"
  /\ stream \notin readerFailed[p]
  /\ readerFailed' = [readerFailed EXCEPT ![p] = Streams]
  /\ UNCHANGED <<processIdCounter, runningProcesses, os, exitCode, status, epc, waiter,
                 completeCallbacks, errorCallbacks, completeLog, completeOutput,
                 seenAtComplete, errorLog, stdinLog, sigLog, kpc, ktarget, ktimer, kret,
                 inputReturn, einput, issued>>
  /\ UNCHANGED <<written, pipe, output, outputCallbacks, outputLog>>
  /\ UNCHANGED <<claudeVars, listVars>>

ReadError(p, stream) ==
  /\ bot # "exited"
  /\ epc[p] = "returned"
  /\ stream \notin readerFailed[p]
  /\ readerFailed' = [readerFailed EXCEPT ![p] = @ \cup {stream}]
  /\ UNCHANGED <<processIdCounter, runningProcesses, os, exitCode, status, epc, waiter,
                 completeCallbacks, errorCallbacks, completeLog, completeOutput,
                 seenAtComplete, errorLog, stdinLog, sigLog, kpc, ktarget, ktimer, kret,
                 inputReturn, einput, issued>>
  /\ UNCHANGED <<written, pipe, output, outputCallbacks, outputLog>>
  /\ UNCHANGED <<claudeVars, listVars>>

\* The OS process ends.
ProcExit(p, code) ==
  /\ os[p] = "running"
  /\ CanExitWith(p, code)
  /\ os' = [os EXCEPT ![p] = "exited"]
  /\ exitCode' = [exitCode EXCEPT ![p] = code]
  /\ UNCHANGED <<processIdCounter, runningProcesses, status, epc, waiter,
                 completeCallbacks, errorCallbacks, completeLog, completeOutput, seenAtComplete, errorLog, stdinLog, sigLog,
                 kpc, ktarget, ktimer, kret, inputReturn, einput, issued>>
  /\ UNCHANGED <<claudeVars, outVars, listVars>>

\* clearTimeout(timeout) (shell.ts:179): a timer that has not fired is cancelled.
ClearTimeoutLate(t) == t
ClearTimeout(t) == IF t = "armed" THEN "cleared" ELSE t

\* The killProcess calls suspended at `await process.child.status` for p
\* (shell.ts:178).
KillsWaitingOn(p) == {k \in Kills : kpc[k] = "waiting" /\ ktarget[k] = p}

\* The runtime observes the exit and resolves child.status. In the same turn the
\* exit waiter runs (shell.ts:113-119) and every suspended killProcess resumes:
\* clearTimeout, delete, success (shell.ts:179-182).
StatusResolve(p) ==
  /\ bot # "exited"
  /\ os[p] = "exited"
  /\ status[p] = "pending"
  /\ status' = [status EXCEPT ![p] = "resolved"]
  /\ IF waiter[p]
     THEN WaiterRuns(p, "resolved")
     ELSE UNCHANGED <<completeLog, completeOutput, seenAtComplete, errorLog>>
  /\ runningProcesses' = IF waiter[p] \/ KillsWaitingOn(p) # {}
                         THEN runningProcesses \ {p}
                         ELSE runningProcesses
  /\ kpc' = [k \in Kills |-> IF k \in KillsWaitingOn(p) THEN "done" ELSE kpc[k]]
  /\ kret' = [k \in Kills |-> IF k \in KillsWaitingOn(p) THEN "true" ELSE kret[k]]
  /\ ktimer' = [k \in Kills |->
                  IF k \in KillsWaitingOn(p) THEN ClearTimeout(ktimer[k]) ELSE ktimer[k]]
  /\ UNCHANGED <<processIdCounter, os, exitCode, epc, waiter, completeCallbacks,
                 errorCallbacks, stdinLog, sigLog, ktarget, inputReturn, einput, issued>>
  /\ UNCHANGED <<claudeVars, outVars, listVars>>

\* Waiting for the exit status fails: child.status rejects. The waiter's catch
\* runs (shell.ts:116-119) and every suspended killProcess lands in its own
\* catch, which returns failure and leaves its timer as it is (shell.ts:183-186).
StatusReject(p) ==
  /\ bot # "exited"
  /\ os[p] # "none"
  /\ status[p] = "pending"
  /\ status' = [status EXCEPT ![p] = "rejected"]
  /\ IF waiter[p]
     THEN WaiterRuns(p, "rejected")
     ELSE UNCHANGED <<completeLog, completeOutput, seenAtComplete, errorLog>>
  /\ runningProcesses' = IF waiter[p] THEN runningProcesses \ {p} ELSE runningProcesses
  /\ kpc' = [k \in Kills |-> IF k \in KillsWaitingOn(p) THEN "done" ELSE kpc[k]]
  /\ kret' = [k \in Kills |-> IF k \in KillsWaitingOn(p) THEN "false" ELSE kret[k]]
  /\ UNCHANGED <<processIdCounter, os, exitCode, epc, waiter, completeCallbacks,
                 errorCallbacks, stdinLog, sigLog, ktarget, ktimer, inputReturn, einput,
                 issued>>
  /\ UNCHANGED <<claudeVars, outVars, listVars>>

\* sendInput (shell.ts:138-151): the lookup, then the write and its outcome.
SendInput(h, text) ==
  /\ bot # "exited"
  /\ IF ~RegistryHas(runningProcesses, h)
     THEN /\ inputReturn' = "false"
          /\ UNCHANGED stdinLog
     ELSE /\ Len(stdinLog[h]) < MaxWrites
          /\ IF os[h] = "running"
             THEN /\ stdinLog' = WriteStdin(stdinLog, h, text)
                  /\ inputReturn' = "true"
             ELSE /\ inputReturn' = "false"
                  /\ UNCHANGED stdinLog
  /\ UNCHANGED <<processIdCounter, runningProcesses, os, exitCode, status, epc, waiter,
                 completeCallbacks, errorCallbacks, completeLog, completeOutput, seenAtComplete, errorLog, sigLog,
                 kpc, ktarget, ktimer, kret, einput, issued>>
  /\ UNCHANGED <<claudeVars, outVars, listVars>>

\* killProcess up to its await (shell.ts:163-178), as the k-th call: unknown
\* handle, or SIGTERM, the 5 s timer and the wait for the exit status. A kill
\* that throws, or a status that is already settled, ends the call at once.
KillProcess(k, h) ==
  /\ bot # "exited"
  /\ kpc[k] = "idle"
  /\ \A j \in Kills : j < k => kpc[j] # "idle"
  /\ ktarget' = [ktarget EXCEPT ![k] = h]
  /\ IF ~RegistryHas(runningProcesses, h)
     THEN /\ kpc' = [kpc EXCEPT ![k] = "done"]
          /\ kret' = [kret EXCEPT ![k] = "false"]
          /\ UNCHANGED <<sigLog, ktimer, runningProcesses>>
     ELSE IF KillThrows(h)
     THEN /\ kpc' = [kpc EXCEPT ![k] = "done"]
          /\ kret' = [kret EXCEPT ![k] = "false"]
          /\ UNCHANGED <<sigLog, ktimer, runningProcesses>>
     ELSE /\ sigLog' = Signal(sigLog, h, "SIGTERM")
          /\ ktimer' = [ktimer EXCEPT ![k] = "armed"]
          /\ IF status[h] = "rejected"
             THEN /\ kpc' = [kpc EXCEPT ![k] = "done"]
                  /\ kret' = [kret EXCEPT ![k] = "false"]
             ELSE /\ kpc' = [kpc EXCEPT ![k] = "waiting"]
                  /\ UNCHANGED kret
          /\ UNCHANGED runningProcesses
  /\ UNCHANGED <<processIdCounter, os, exitCode, status, epc, waiter, completeCallbacks,
                 errorCallbacks, completeLog, completeOutput, seenAtComplete, errorLog, stdinLog, inputReturn, einput,
                 issued>>
  /\ UNCHANGED <<claudeVars, outVars, listVars>>

\* The 5 s timer of a killProcess call fires: child.kill("SIGKILL")
\* (shell.ts:174-176).
KillTimerFire(k) ==
  /\ bot # "exited"
  /\ ktimer[k] = "armed"
  /\ ktimer' = [ktimer EXCEPT ![k] = "fired"]
  /\ sigLog' = Signal(sigLog, ktarget[k], "SIGKILL")
  /\ UNCHANGED <<processIdCounter, runningProcesses, os, exitCode, status, epc, waiter,
                 completeCallbacks, errorCallbacks, completeLog, completeOutput, seenAtComplete, errorLog, stdinLog,
                 kpc, ktarget, kret, inputReturn, einput, issued>>
  /\ UNCHANGED <<claudeVars, outVars, listVars>>

\* getRunningProcesses (shell.ts:156-158) returns this.runningProcesses, the
\* registry's own Map: what the caller holds is at every moment the registry.
HeldValue == runningProcesses

GetRunningProcesses ==
  /\ bot # "exited"
  /\ ~held
  /\ held' = TRUE
  /\ heldAt' = runningProcesses
  /\ UNCHANGED <<processIdCounter, runningProcesses, os, exitCode, status, epc, waiter,
                 completeCallbacks, errorCallbacks, completeLog, completeOutput,
                 seenAtComplete, errorLog, stdinLog, sigLog, kpc, ktarget, ktimer, kret,
                 inputReturn, einput, issued>>
  /\ UNCHANGED <<claudeVars, outVars>>

\* The caller changes the value it holds: Map.prototype.delete on the Map that
\* getRunningProcesses returned.
HeldDelete(h) ==
  /\ bot # "exited"
  /\ held
  /\ h \in HeldValue
  /\ runningProcesses' = Delete(HeldValue, h)
  /\ UNCHANGED <<processIdCounter, os, exitCode, status, epc, waiter,
                 completeCallbacks, errorCallbacks, completeLog, completeOutput,
                 seenAtComplete, errorLog, stdinLog, sigLog, kpc, ktarget, ktimer, kret,
                 inputReturn, einput, issued>>
  /\ UNCHANGED <<claudeVars, outVars, listVars>>

\* killAllProcesses (shell.ts:192-200): SIGTERM to every registered process, a
\* kill that throws is caught and skipped.
SignalAllUntilThrow(log, ps) ==
  LET throwing == {p \in ps : KillThrows(p)} IN
  [q \in DOMAIN log |->
     IF q \in ps /\ (\A t \in throwing : q < t) THEN Append(log[q], "SIGTERM") ELSE log[q]]

RECURSIVE SignalAll(_, _)
SignalAll(log, ps) ==
  IF ps = {} THEN log
  ELSE LET p == CHOOSE x \in ps : \A y \in ps : x <= y IN
       SignalAll(Signal(log, p, "SIGTERM"), ps \ {p})

KillAllProcesses(log) == SignalAll(log, runningProcesses)

\* The shutdown command and the signal handler (index.ts:665-677, 760-783):
\* signal every shell process, cancel the controller index.ts holds and arm the
\* exit timer. One shutdown request per run.
Shutdown ==
  /\ bot = "running"
  /\ sigLog' = KillAllProcesses(sigLog)
  /\ aborted' = Abort(aborted, claudeController)
  /\ bot' = "stopping"
  /\ UNCHANGED <<claudeController, claudeSessionId, deps_claudeController, cancelReturn,
                 ipc, call, currentMessages, currentSessionId, currentResponse, modelUsed,
                 queries, queryOptions, firstError, streamed, forwarded, lateForward, result>>
  /\ UNCHANGED <<processIdCounter, runningProcesses, os, exitCode, status, epc, waiter,
                 completeCallbacks, errorCallbacks, completeLog, completeOutput, seenAtComplete, errorLog, stdinLog,
                 kpc, ktarget, ktimer, kret, inputReturn, einput, issued, outVars, listVars>>

\* The exit timer fires: Deno.exit (index.ts:675-677, 781-784).
BotExit ==
  /\ bot = "stopping"
  /\ bot' = "exited"
  /\ UNCHANGED <<claudeController, claudeSessionId, deps_claudeController, cancelReturn,
                 ipc, aborted, call, currentMessages, currentSessionId, currentResponse,
                 modelUsed, queries, queryOptions, firstError, streamed, forwarded, lateForward, result>>
  /\ UNCHANGED shellVars

\* createClaudeCodeBot (index.ts:64-96): no controller, no session, and the deps
\* object built with the value claudeController has at that moment.
InitClaude ==
  /\ claudeController = Null
  /\ claudeSessionId = Undefined
  /\ deps_claudeController = Null
  /\ bot = "running"
  /\ cancelReturn = "none"
  /\ ipc = [i \in Invocations |-> "idle"]
  /\ aborted = [i \in Invocations |-> FALSE]
  /\ call = [i \in Invocations |-> NoCall]
  /\ currentMessages = [i \in Invocations |-> <<>>]
  /\ currentSessionId = [i \in Invocations |-> Undefined]
  /\ currentResponse = [i \in Invocations |-> ""]
  /\ modelUsed = [i \in Invocations |-> ""]
  /\ queries = [i \in Invocations |-> 0]
  /\ result = [i \in Invocations |-> NoResult]
  /\ queryOptions = [i \in Invocations |-> <<>>]
  /\ firstError = [i \in Invocations |-> NoError]
  /\ streamed = [i \in Invocations |-> <<>>]
  /\ forwarded = [i \in Invocations |-> <<>>]
  /\ lateForward = [i \in Invocations |-> FALSE]

\* new ShellManager(workDir) (index.ts:70, shell.ts:34-40)
InitShell ==
  /\ processIdCounter = 0
  /\ runningProcesses = {}
  /\ os = [p \in Procs |-> "none"]
  /\ exitCode = [p \in Procs |-> NoCode]
  /\ status = [p \in Procs |-> "pending"]
  /\ epc = [p \in Procs |-> "none"]
  /\ waiter = [p \in Procs |-> FALSE]
  /\ completeCallbacks = [p \in Procs |-> <<>>]
  /\ errorCallbacks = [p \in Procs |-> 0]
  /\ completeLog = [p \in Procs |-> <<>>]
  /\ errorLog = [p \in Procs |-> <<>>]
  /\ stdinLog = [p \in Procs |-> <<>>]
  /\ sigLog = [p \in Procs |-> <<>>]
  /\ kpc = [k \in Kills |-> "idle"]
  /\ ktarget = [k \in Kills |-> Null]
  /\ ktimer = [k \in Kills |-> "none"]
  /\ kret = [k \in Kills |-> "none"]
  /\ inputReturn = "none"
  /\ einput = [p \in Procs |-> NoInput]
  /\ issued = <<>>
  /\ written = [p \in Procs |-> [s \in Streams |-> <<>>]]
  /\ pipe = [p \in Procs |-> [s \in Streams |-> <<>>]]
  /\ output = [p \in Procs |-> <<>>]
  /\ outputCallbacks = [p \in Procs |-> 0]
  /\ outputLog = [p \in Procs |-> <<>>]
  /\ readerFailed = [p \in Procs |-> {}]
  /\ completeOutput = [p \in Procs |-> NoOutput]
  /\ seenAtComplete = [p \in Procs |-> "none"]
  /\ held = FALSE
  /\ heldAt = {}

Init == InitClaude /\ InitShell

\* The session coordinator and its client.
NextClaude ==
  \/ \E i \in Invocations, sid \in SessionInputs : OnClaude(i, sid)
  \/ \E i \in Invocations : OnContinue(i)
  \/ \E i \in Invocations : StartStream(i)
  \/ \E i \in Invocations, ev \in Events : StreamEvent(i, ev)
  \/ \E i \in Invocations : StreamEnd(i)
  \/ \E i \in Invocations, e \in StreamErrors : StreamThrow(i, e)
  \/ OnClaudeCancel
  \/ Shutdown
  \/ BotExit

SpecClaude == Init /\ [][NextClaude]_vars

\* One call of sendToClaudeCode, through a handler or by another caller, with
\* every outcome of its stream; the caller's abort and the shutdown cancel it.
NextClient ==
  \/ \E sid \in SessionInputs : OnClaude(1, sid)
  \/ OnContinue(1)
  \/ \E i \in Invocations : StartStream(i)
  \/ \E sid \in ClientSessionInputs, continueMode \in BOOLEAN, onStreamJson \in BOOLEAN :
        SendToClaudeCode(1, sid, continueMode, onStreamJson)
  \/ \E i \in Invocations : AbortCall(i)
  \/ \E i \in Invocations, ev \in ClientEvents : StreamEvent(i, ev)
  \/ \E i \in Invocations : StreamEnd(i)
  \/ \E i \in Invocations, e \in ClientErrors : StreamThrow(i, e)
  \/ Shutdown

SpecClient == Init /\ [][NextClient]_vars

\* The external stream of an attempt whose controller is aborted does not stay
\* silent for ever: it yields an event, ends or raises.
StreamMoves(i) ==
  \/ \E ev \in ClientEvents : StreamEvent(i, ev)
  \/ StreamEnd(i)
  \/ \E e \in ClientErrors : StreamThrow(i, e)

FairCancel == \A i \in Invocations : WF_vars(aborted[i] /\ StreamMoves(i))

SpecCancel == Init /\ [][NextClient]_vars /\ FairCancel

\* cleanSessionId on its own: the caller holds a pasted session id and calls
\* sendToClaudeCode with it; the first attempt's options carry the cleaned id.
InitClean ==
  /\ InitShell
  /\ claudeController = Null
  /\ claudeSessionId = Undefined
  /\ deps_claudeController = Null
  /\ bot = "running"
  /\ cancelReturn = "none"
  /\ ipc = [i \in Invocations |-> "idle"]
  /\ aborted = [i \in Invocations |-> FALSE]
  /\ \E sid \in PastedSessionInputs :
        call = [i \in Invocations |-> IF i = 1 THEN [NoCall EXCEPT !.sessionId = sid]
                                      ELSE NoCall]
  /\ currentMessages = [i \in Invocations |-> <<>>]
  /\ currentSessionId = [i \in Invocations |-> Undefined]
  /\ currentResponse = [i \in Invocations |-> ""]
  /\ modelUsed = [i \in Invocations |-> ""]
  /\ queries = [i \in Invocations |-> 0]
  /\ result = [i \in Invocations |-> NoResult]
  /\ queryOptions = [i \in Invocations |-> <<>>]
  /\ firstError = [i \in Invocations |-> NoError]
  /\ streamed = [i \in Invocations |-> <<>>]
  /\ forwarded = [i \in Invocations |-> <<>>]
  /\ lateForward = [i \in Invocations |-> FALSE]

NextClean ==
  \E continueMode \in BOOLEAN, onStreamJson \in BOOLEAN :
     SendToClaudeCode(1, call[1].sessionId, continueMode, onStreamJson)

SpecClean == InitClean /\ [][NextClean]_vars

\* cleanSessionId on any short string of whitespace, backticks and identifier
\* characters, in any order.
InitIdem ==
  /\ InitShell
  /\ claudeController = Null
  /\ claudeSessionId = Undefined
  /\ deps_claudeController = Null
  /\ bot = "running"
  /\ cancelReturn = "none"
  /\ ipc = [i \in Invocations |-> "idle"]
  /\ aborted = [i \in Invocations |-> FALSE]
  /\ \E sid \in ArbitrarySessionInputs :
        call = [i \in Invocations |-> IF i = 1 THEN [NoCall EXCEPT !.sessionId = sid]
                                      ELSE NoCall]
  /\ currentMessages = [i \in Invocations |-> <<>>]
  /\ currentSessionId = [i \in Invocations |-> Undefined]
  /\ currentResponse = [i \in Invocations |-> ""]
  /\ modelUsed = [i \in Invocations |-> ""]
  /\ queries = [i \in Invocations |-> 0]
  /\ result = [i \in Invocations |-> NoResult]
  /\ queryOptions = [i \in Invocations |-> <<>>]
  /\ firstError = [i \in Invocations |-> NoError]
  /\ streamed = [i \in Invocations |-> <<>>]
  /\ forwarded = [i \in Invocations |-> <<>>]
  /\ lateForward = [i \in Invocations |-> FALSE]

SpecIdem == InitIdem /\ [][NextClean]_vars

\* The process supervisor with several processes: spawn, exit, input and kill.
\* No subscriber registers, no exit wait fails and no grace period runs out.
NextShell ==
  \/ Execute(NoInput)
  \/ \E p \in Procs, code \in ExitCodes : ProcExit(p, code)
  \/ \E p \in Procs : StatusResolve(p)
  \/ \E h \in HandleInputs, text \in Texts : SendInput(h, text)
  \/ \E k \in Kills, h \in HandleInputs : KillProcess(k, h)

SpecShell == Init /\ [][NextShell]_vars

\* One process through its whole life: spawn with or without input, subscribers,
\* exit or exit-wait failure, input, concurrent kills and shutdown.
NextProc ==
  \/ \E input \in Texts \cup {NoInput} : processIdCounter = 0 /\ Execute(input)
  \/ \E p \in Procs : ExecuteWriteDone(p)
  \/ \E p \in Procs : ExecuteWriteFail(p)
  \/ \E p \in Procs, throws \in BOOLEAN : OnComplete(p, throws)
  \/ \E p \in Procs : OnError(p)
  \/ \E p \in Procs, code \in ExitCodes : ProcExit(p, code)
  \/ \E p \in Procs : StatusResolve(p)
  \/ \E p \in Procs : StatusReject(p)
  \/ \E h \in OneProcHandles, text \in Texts : SendInput(h, text)
  \/ \E k \in Kills, h \in OneProcHandles : KillProcess(k, h)
  \/ \E k \in Kills : KillTimerFire(k)
  \/ Shutdown

SpecProc == Init /\ [][NextProc]_vars

\* Processes that ignore the graceful signal and do not end by themselves: they
\* run until SIGKILL ends them. Callers spawn, kill and shut down.
NextKill ==
  \/ Execute(NoInput)
  \/ \E p \in Procs : ProcExit(p, 137)
  \/ \E p \in Procs : StatusResolve(p)
  \/ \E k \in Kills, h \in HandleInputs : KillProcess(k, h)
  \/ \E k \in Kills : KillTimerFire(k)
  \/ Shutdown

\* The event loop runs a timer that is due, the OS ends a process that was sent
\* SIGKILL, and the runtime reports an exit it has seen.
FairKill ==
  /\ \A k \in Kills : WF_vars(KillTimerFire(k))
  /\ \A p \in Procs : WF_vars(ProcExit(p, 137))
  /\ \A p \in Procs : WF_vars(StatusResolve(p))

SpecKill == Init /\ [][NextKill]_vars /\ FairKill

\* Several processes, spawned with or without initial input, that end by
\* themselves or by a signal, and one shutdown.
NextAll ==
  \/ \E input \in Texts \cup {NoInput} : Execute(input)
  \/ \E p \in Procs : ExecuteWriteDone(p)
  \/ \E p \in Procs : ExecuteWriteFail(p)
  \/ \E p \in Procs, code \in ExitCodes : ProcExit(p, code)
  \/ \E p \in Procs : StatusResolve(p)
  \/ Shutdown

SpecAll == Init /\ [][NextAll]_vars

\* Shell processes up to the end of the bot: they are spawned, end by
\* themselves or by a signal or not at all, a shutdown is requested and the
\* exit timer fires.
NextExit ==
  \/ Execute(NoInput)
  \/ \E p \in Procs, code \in ExitCodes : ProcExit(p, code)
  \/ \E p \in Procs : StatusResolve(p)
  \/ Shutdown
  \/ BotExit

SpecExit == Init /\ [][NextExit]_vars

\* A caller lists the processes and keeps the value, while processes are
\* spawned, are killed and end.
NextList ==
  \/ Execute(NoInput)
  \/ \E p \in Procs, code \in ExitCodes : ProcExit(p, code)
  \/ \E p \in Procs : StatusResolve(p)
  \/ \E k \in Kills, h \in HandleInputs : KillProcess(k, h)
  \/ GetRunningProcesses
  \/ \E h \in Procs : HeldDelete(h)

SpecList == Init /\ [][NextList]_vars

\* One process and its output: spawn, subscribers, writes to both streams, the
\* two readers, exit and the exit waiter.
NextOutput ==
  \/ \E input \in Texts \cup {NoInput} : processIdCounter = 0 /\ Execute(input)
  \/ \E p \in Procs : ExecuteWriteDone(p)
  \/ \E p \in Procs : OnOutput(p)
  \/ \E p \in Procs : OnComplete(p, FALSE)
  \/ \E p \in Procs, stream \in Streams, bytes \in Writes : ProcWrite(p, stream, bytes)
  \/ \E p \in Procs, stream \in Streams, n \in 1..MaxOutput : ReaderRead(p, stream, n)
  \/ \E p \in Procs, code \in ExitCodes : ProcExit(p, code)
  \/ \E p \in Procs : StatusResolve(p)

SpecOutput == Init /\ [][NextOutput]_vars

\* One process whose readers can fail: spawn, subscribers of all three hooks,
\* writes, reads, read errors, exit and the exit waiter.
NextRead ==
  \/ processIdCounter = 0 /\ Execute(NoInput)
  \/ \E p \in Procs : OnOutput(p)
  \/ \E p \in Procs : OnComplete(p, FALSE)
  \/ \E p \in Procs : OnError(p)
  \/ \E p \in Procs, stream \in Streams : ProcWrite(p, stream, <<"61">>)
  \/ \E p \in Procs, stream \in Streams, n \in 1..MaxOutput : ReaderRead(p, stream, n)
  \/ \E p \in Procs, stream \in Streams : ReadError(p, stream)
  \/ \E p \in Procs : ProcExit(p, 0)
  \/ \E p \in Procs : StatusResolve(p)

SpecRead == Init /\ [][NextRead]_vars

\* Several processes side by side, each with its own exit or exit-wait
\* failure, while the first one has a read error and callers send input to it
\* and kill it.
NextLocal ==
  \/ Execute(NoInput)
  \/ \E p \in OneProcHandles \cap Procs : ReadError(p, "stderr")
  \/ \E p \in Procs, code \in ExitCodes : ProcExit(p, code)
  \/ \E p \in Procs : StatusResolve(p)
  \/ \E p \in Procs : StatusReject(p)
  \/ \E h \in OneProcHandles, text \in Texts : SendInput(h, text)
  \/ \E k \in Kills, h \in OneProcHandles : KillProcess(k, h)
  \/ \E k \in Kills : KillTimerFire(k)

SpecLocal == Init /\ [][NextLocal]_vars

\* ================================================================== claims
Cancellable(i) == InFlight(i) /\ ~aborted[i]
Count(log, k) == Cardinality({n \in DOMAIN log : log[n].cb = k})

\* C1: starting invocation j while an earlier invocation i is in flight aborts
\* i's controller before j's stream is started, and i then ends with the
\* cancelled outcome, never with a normal or a retry result.
C1_SupersedeCancelsEarlier ==
  [][\A i, j \in Invocations :
       (i < j /\ InFlight(i) /\ ipc[j] # "idle") =>
         /\ Streaming(j) => aborted[i]
         /\ ipc'[i] = "done" => result'[i].status = "cancelled"]_vars

\* C2: at most one invocation is consuming its stream with a controller that
\* has not been aborted.
C2_AtMostOneLiveInvocation ==
  Cardinality({i \in Invocations : Streaming(i) /\ ~aborted[i]}) <= 1

\* C3: onClaudeCancel returns true exactly when an invocation is in flight and
\* not yet cancelled; it then aborts that invocation's controller and clears the
\* active handle; otherwise it returns false and changes nothing.
C3_CancelCurrent ==
  [][OnClaudeCancel =>
       IF \E i \in Invocations : Cancellable(i)
       THEN /\ cancelReturn' = "true"
            /\ \A i \in Invocations : Cancellable(i) => aborted'[i]
            /\ claudeController' = Null
       ELSE /\ cancelReturn' = "false"
            /\ UNCHANGED <<aborted, claudeController, claudeSessionId>>]_vars

\* C4: once a process's exit has been observed (child.status resolved), every
\* callback registered on its onComplete hook has been invoked exactly once,
\* with the exit code the OS reported.
C4_CompletionExactlyOnce ==
  \A p \in Procs :
    status[p] = "resolved" =>
      \A k \in DOMAIN completeCallbacks[p] :
        /\ Count(completeLog[p], k) = 1
        /\ \A n \in DOMAIN completeLog[p] : completeLog[p][n].code = exitCode[p]

\* C5: no completion callback and no error callback is invoked more than once
\* for the same process.
C5_CallbacksAtMostOnce ==
  \A p \in Procs : \A k \in 1..MaxCallbacks :
    /\ Count(completeLog[p], k) <= 1
    /\ Count(errorLog[p], k) <= 1

\* A completion callback ran for a process on which two killProcess calls were
\* waiting, and both returned success.
C5_Witness ==
  \E p \in Procs : \E k1, k2 \in Kills :
    /\ k1 # k2
    /\ ktarget[k1] = p /\ ktarget[k2] = p
    /\ kret[k1] = "true" /\ kret[k2] = "true"
    /\ completeLog[p] # <<>>
    /\ \E n \in DOMAIN sigLog[p] : sigLog[p][n] = "SIGKILL"

\* C6: completion and error callbacks are mutually exclusive per process.
C6_CompletionXorError ==
  \A p \in Procs : completeLog[p] = <<>> \/ errorLog[p] = <<>>

\* C7: every handle in the registry refers to an OS process that has not exited.
C7_RegisteredIsLive ==
  \A p \in runningProcesses : os[p] = "running"

\* C8: once the OS process has exited and everything the supervisor had pending
\* for it has run (the initial write is over and child.status is settled), its
\* handle is no longer in the registry.
C8_ExitedIsDeregistered ==
  \A p \in Procs :
    (os[p] = "exited" /\ status[p] # "pending" /\ epc[p] # "writing")
       => p \notin runningProcesses

\* C9: every processId execute assigns is strictly greater than every
\* processId assigned before.
C9_HandlesStrictlyIncrease ==
  \A a, b \in DOMAIN issued : a < b => issued[a] < issued[b]

\* A second handle was issued after the first process had left the registry.
C9_Witness ==
  /\ Len(issued) >= 2
  /\ issued[1] \notin runningProcesses
  /\ os[issued[1]] = "exited"

\* C10: sendInput and killProcess on a handle that is not in the registry
\* return failure, send no signal, write to no stdin, arm no timer and leave
\* the registry unchanged.
C10_UnknownHandleFails ==
  [][\A h \in HandleInputs :
       h \notin runningProcesses =>
         /\ (\E text \in Texts : SendInput(h, text)) =>
              /\ inputReturn' = "false"
              /\ UNCHANGED <<sigLog, stdinLog, runningProcesses, ktimer>>
         /\ (\E k \in Kills : KillProcess(k, h)) =>
              /\ \A k \in Kills : (kpc[k] = "idle" /\ kpc'[k] # "idle") =>
                                    (kpc'[k] = "done" /\ kret'[k] = "false")
              /\ UNCHANGED <<sigLog, stdinLog, runningProcesses, ktimer>>]_vars

\* killProcess returned failure for the handle of a process that has exited and
\* been deregistered, and sendInput failed on it without any write.
C10_Witness ==
  /\ os[1] = "exited" /\ status[1] = "resolved" /\ epc[1] = "returned"
  /\ 1 \notin runningProcesses
  /\ inputReturn = "false" /\ stdinLog[1] = <<>>
  /\ \E k \in Kills : ktarget[k] = 1 /\ kret[k] = "false" /\ ktimer[k] = "none"
  /\ sigLog[1] = <<>>

C12_ForcedKillCompletes ==
  \A k \in Kills :
    (kpc[k] = "waiting") ~>
      (/\ kret[k] = "true"
       /\ \E n \in DOMAIN sigLog[ktarget[k]] : sigLog[ktarget[k]][n] = "SIGKILL"
       /\ os[ktarget[k]] = "exited"
       /\ ktarget[k] \notin runningProcesses)

\* A killProcess call waits on a running process that has received SIGTERM and
\* nothing else.
C12_Witness ==
  \E k \in Kills :
    /\ kpc[k] = "waiting"
    /\ os[ktarget[k]] = "running"
    /\ sigLog[ktarget[k]] = <<"SIGTERM">>
    /\ ktimer[k] = "armed"

\* C13: killAllProcesses appends one SIGTERM to the signals of every registered
\* process whose kill does not raise, sends nothing to a process whose kill
\* raises or whose handle is not registered, and leaves the registry, the
\* processes and every killProcess call as they are.
C13_KillAllSignalsRegistered ==
  [][Shutdown =>
       /\ \A p \in Procs :
            sigLog'[p] = IF p \in runningProcesses /\ ~KillThrows(p)
                         THEN Append(sigLog[p], "SIGTERM")
                         ELSE sigLog[p]
       /\ UNCHANGED <<runningProcesses, os, status, kpc, ktimer, kret>>]_vars

\* Shutdown ran with two registered handles: signalling the first raised (its
\* exit had been seen), and the second still received SIGTERM.
C13_Witness ==
  /\ bot = "stopping"
  /\ {1, 2} \subseteq runningProcesses
  /\ status[1] = "resolved" /\ sigLog[1] = <<>>
  /\ os[2] = "running" /\ sigLog[2] = <<"SIGTERM">>

\* The text delivered to callback k of process p for one stream, in delivery order.
RECURSIVE Delivered(_, _, _)
Delivered(log, k, stream) ==
  IF log = <<>> THEN <<>>
  ELSE (IF log[1].cb = k /\ log[1].stream = stream THEN log[1].text ELSE <<>>)
         \o Delivered(Tail(log), k, stream)

\* C14: once a process has exited and a stream has been read to its end, what
\* each output callback received for that stream, concatenated in delivery
\* order, is the text the process wrote to that stream.
C14_OutputDeliveredComplete ==
  \A p \in Procs : \A stream \in Streams : \A k \in 1..outputCallbacks[p] :
    (os[p] = "exited" /\ pipe[p][stream] = <<>>)
      => Delivered(outputLog[p], k, stream) = Decode(written[p][stream])

\* C15: when completion has been published, nothing the process wrote is still
\* unread, and the output handed to the completion callbacks is the text of
\* everything the process wrote.
C15_CompletionAfterOutput ==
  \A p \in Procs :
    completeLog[p] # <<>> =>
      /\ \A stream \in Streams : pipe[p][stream] = <<>>
      /\ Len(completeOutput[p]) =
           Len(Decode(written[p]["stdout"])) + Len(Decode(written[p]["stderr"]))

\* the message of e names exit code 1 the way client.ts:152 looks for it
MentionsExitCode1(e) == Includes(e.message, ExitCode1) \/ Includes(e.message, ExitedWithCode1)

\* C16: a call of sendToClaudeCode creates at most two streams; the second is
\* created only in the step in which the first attempt's stream raised an error
\* whose message mentions exit code 1, and its options are those of the first
\* attempt (prompt, cwd, continue, resume) with the fallback model added.
C16_RetryAtMostOnce ==
  [][\A i \in Invocations :
       /\ queries'[i] <= 2
       /\ Len(queryOptions'[i]) = queries'[i]
       /\ (queries'[i] = 2 /\ queries[i] # 2) =>
            /\ queries[i] = 1 /\ ipc[i] = "attempt1" /\ ipc'[i] = "attempt2"
            /\ \E e \in ClientErrors : MentionsExitCode1(e) /\ StreamThrow(i, e)
            /\ queryOptions[i][1].model = Undefined
            /\ queryOptions'[i] =
                 <<queryOptions[i][1], [queryOptions[i][1] EXCEPT !.model = FallbackModelId]>>
            /\ modelUsed'[i] = ModelFallback]_vars

\* A retry is running for a call that was given a session id wrapped in
\* whitespace and backticks, and it resumes the cleaned id.
C16_Witness ==
  \E i \in Invocations :
    /\ ipc[i] = "attempt2" /\ queries[i] = 2
    /\ call[i].sessionId = <<" ", Backtick, "s", "0", Backtick, "\n">>
    /\ queryOptions[i][2].resume = <<"s", "0">>
    /\ queryOptions[i][2].model = FallbackModelId

\* C17: when the retry completes normally, the result reports the fallback
\* model, its cost and duration are those of the last event of the retry's
\* stream, and its session id and response text are taken from events of the
\* retry's stream (or are undefined and the no-response text).
C17_RetryResultFromRetry ==
  [][\A i \in Invocations :
       (ipc[i] = "attempt2" /\ ipc'[i] = "done" /\ result'[i].status = "ok") =>
         /\ streamed[i] # <<>>
         /\ result'[i].modelUsed = ModelFallback
         /\ result'[i].cost = streamed[i][Len(streamed[i])].total_cost_usd
         /\ result'[i].duration = streamed[i][Len(streamed[i])].duration_ms
         /\ result'[i].sessionId \in
              {Undefined} \cup {streamed[i][n].session_id : n \in DOMAIN streamed[i]}
         /\ result'[i].response \in
              {NoResponse} \cup {TextOf(streamed[i][n]) : n \in DOMAIN streamed[i]}]_vars

\* A call without onStreamJson ended normally after a retry whose stream
\* yielded an assistant text and no session id.
C17_Witness ==
  \E i \in Invocations :
    /\ ipc[i] = "done" /\ queries[i] = 2
    /\ result[i].status = "ok"
    /\ result[i].modelUsed = ModelFallback
    /\ result[i].response = "hi"
    /\ result[i].sessionId = Undefined

\* C18: when the stream of the first attempt raises an error that reports an
\* exit code other than 1 (and other than the 143 of a cancellation) and the
\* call was not cancelled, no second stream is created and the call raises that
\* error unchanged.
C18_OtherErrorsPropagate ==
  [][\A i \in Invocations : \A e \in ClientErrors :
       (/\ ipc[i] = "attempt1" /\ ~aborted[i]
        /\ e.name = "Error" /\ e.message \notin {ErrExit1.message, ErrExit143.message}
        /\ StreamThrow(i, e))
         => /\ ipc'[i] = "done"
            /\ queries'[i] = queries[i]
            /\ result'[i].status = "error"
            /\ result'[i].error = e]_vars

\* C19: when the retry fails too, the message of the error the call raises
\* contains the message of the first attempt's error, the message of the
\* retry's error and the note that both models failed.
C19_BothCausesReported ==
  [][\A i \in Invocations :
       (ipc[i] = "attempt2" /\ ipc'[i] = "done" /\ result'[i].status = "error") =>
         /\ Includes(result'[i].error.message, firstError[i].message)
         /\ \A e \in ClientErrors : StreamThrow(i, e) => Includes(result'[i].error.message, e.message)
         /\ Includes(result'[i].error.message, RetryNote)]_vars

\* C20: when the stream of either attempt raises an AbortError, raises while the
\* controller's signal is aborted, or raises an error whose message has 'exited
\* with code 143', the call creates no further stream and returns the cancelled
\* outcome.
C20_CancellationNeverRetries ==
  [][\A i \in Invocations : \A e \in ClientErrors :
       (/\ Streaming(i)
        /\ (e.name = "AbortError" \/ aborted[i] \/ Includes(e.message, ExitedWithCode143))
        /\ StreamThrow(i, e))
         => /\ ipc'[i] = "done"
            /\ queries'[i] = queries[i]
            /\ result'[i].status = "cancelled"
            /\ result'[i].response = CancelMessage
            /\ result'[i].sessionId = Undefined
            /\ result'[i].cost = Undefined
            /\ result'[i].error = NoError]_vars

\* A retry ended with the cancelled outcome although the controller's signal was
\* never aborted: its stream raised an AbortError or an exit with code 143.
C20_Witness ==
  \E i \in Invocations :
    /\ ipc[i] = "done" /\ queries[i] = 2
    /\ ~aborted[i]
    /\ result[i].status = "cancelled"
    /\ result[i].modelUsed = ModelFallback

\* C21: when an event arrives on the stream of either attempt while the
\* controller's signal is aborted, the loop stops in that step without creating
\* another stream, and the call returns the cancelled outcome: the cancel
\* message, no session id, no cost, no duration and no error. The same holds
\* for every other way the attempt can end once the signal is aborted.
C21_CancelMidStream ==
  [][\A i \in Invocations :
       (Streaming(i) /\ aborted[i]) =>
         /\ (\E ev \in ClientEvents : StreamEvent(i, ev)) => ipc'[i] = "done"
         /\ ipc'[i] # ipc[i] =>
              /\ ipc'[i] = "done"
              /\ queries'[i] = queries[i]
              /\ result'[i].status = "cancelled"
              /\ result'[i].response = CancelMessage
              /\ result'[i].sessionId = Undefined
              /\ result'[i].cost = Undefined
              /\ result'[i].duration = Undefined
              /\ result'[i].error = NoError]_vars

\* The signal was aborted while the loop of an attempt had already consumed
\* events that carry a session id, a cost and an assistant text.
C21_Witness ==
  \E i \in Invocations :
    /\ Streaming(i) /\ aborted[i]
    /\ currentSessionId[i] # Undefined
    /\ currentResponse[i] # ""
    /\ \E n \in DOMAIN currentMessages[i] : currentMessages[i][n].total_cost_usd # Undefined

\* the text of the last event of s that is an assistant event carrying text,
\* the no-response text when there is none
LastAssistantText(s) ==
  LET idx == {n \in DOMAIN s : s[n].type = "assistant" /\ s[n].text # ""} IN
  IF idx = {} THEN NoResponse
  ELSE s[CHOOSE n \in idx : \A m \in idx : m <= n].text

\* C22: when a call completes normally, its response is the text of the last
\* assistant event with text that the stream of the final attempt yielded, with
\* or without an onStreamJson callback, and the no-response text only when that
\* stream yielded no assistant event with text.
C22_ResponseIsLastAssistantText ==
  [][\A i \in Invocations :
       (Streaming(i) /\ ipc'[i] = "done" /\ result'[i].status = "ok") =>
         result'[i].response = LastAssistantText(streamed[i])]_vars

\* C23: for every identifier made only of characters that are neither
\* whitespace nor backticks, a call given that identifier wrapped in
\* whitespace, in one or more backticks on each side, or in a code fence of
\* three backticks with newlines resumes exactly the identifier.
C23_CleanSessionIdUnwraps ==
  \A i \in Invocations : \A id \in Identifiers :
    (queries[i] >= 1 /\ ~call[i].continueMode /\ call[i].sessionId \in Wrapped(id))
      => queryOptions[i][1].resume = id

\* A call was given an identifier inside a code fence with newlines and
\* whitespace around it, and resumes the bare identifier.
C23_Witness ==
  /\ queries[1] = 1 /\ ~call[1].continueMode
  /\ call[1].sessionId =
       <<" ", Backtick, Backtick, Backtick, "\n", "s", "0", "\r", "\n",
         Backtick, Backtick, Backtick, "\n">>
  /\ queryOptions[1][1].resume = <<"s", "0">>

\* a pasted session id without its whitespace and backticks
Sanitized(sid) == SelectSeq(sid, LAMBDA c : c \notin Whitespace \cup {Backtick})

\* C24: the options of every attempt of a call name one way to resume: with
\* continueMode they have continue and no resume id, also when a session id
\* was supplied; without continueMode and with a session id that is not empty
\* once sanitized they have that id as resume and no continue; otherwise they
\* have neither.
C24_OneResumeMechanism ==
  \A i \in Invocations : \A n \in DOMAIN queryOptions[i] :
    LET o == queryOptions[i][n]
        c == call[i] IN
    /\ c.continueMode => (o.continue /\ o.resume = NoSession)
    /\ (~c.continueMode /\ Sanitized(c.sessionId) # <<>>)
         => (~o.continue /\ o.resume = Sanitized(c.sessionId))
    /\ (~c.continueMode /\ Sanitized(c.sessionId) = <<>>)
         => (~o.continue /\ o.resume = NoSession)

\* A call with continueMode and a session id is in its retry, and both attempts
\* passed continue without a resume id.
C24_Witness ==
  \E i \in Invocations :
    /\ ipc[i] = "attempt2" /\ Len(queryOptions[i]) = 2
    /\ call[i].continueMode /\ call[i].sessionId = <<"s", "0">>
    /\ \A n \in 1..2 : queryOptions[i][n].continue /\ queryOptions[i][n].resume = NoSession

\* C25: once the bot process has exited after a shutdown, every shell process
\* that the shutdown found in the registry and signalled has terminated.
C25_ShutdownTerminatesAll ==
  bot = "exited" =>
    \A p \in Procs :
      (\E n \in DOMAIN sigLog[p] : sigLog[p][n] = "SIGTERM") => os[p] = "exited"

\* C26: the value a caller got from getRunningProcesses stays the set of
\* handles that were registered when it was returned, whatever is spawned or
\* ends afterwards, and a change the caller makes to that value leaves the
\* registry as it is.
C26_ListIsSnapshot ==
  [][/\ (held /\ held') => HeldValue' = heldAt
     /\ \A h \in Procs : HeldDelete(h) => UNCHANGED runningProcesses]_vars

\* C27: a completion callback is invoked while its process's handle is still in
\* the registry: the exit waiter publishes first and deregisters afterwards.
C27_PublishThenDeregister ==
  \A p \in Procs : completeLog[p] # <<>> => seenAtComplete[p] = "registered"

\* C28: once an invocation started by onClaude or onContinue has terminated,
\* by a result, by cancellation or by an error raised by sendToClaudeCode, the
\* coordinator no longer holds its controller, and with no invocation in
\* flight it holds none (the status query reports idle).
C28_ControllerClearedOnTermination ==
  /\ \A i \in Invocations : (ipc[i] = "done" /\ call[i].handler) => claudeController # i
  /\ (\A i \in Invocations : ~InFlight(i)) => claudeController = Null

\* C29: when an invocation terminates while a newer one is in flight and the
\* coordinator holds the newer one's controller, the coordinator still holds
\* that controller afterwards and the stored session id is unchanged; and an
\* onClaudeCancel issued while the newest invocation is in flight and not yet
\* cancelled aborts it.
C29_StaleCompletionKeepsNewer ==
  [][\A i, j \in Invocations :
       (i < j /\ InFlight(j)) =>
         /\ (Streaming(i) /\ ipc'[i] = "done" /\ claudeController = j)
              => (claudeController' = j /\ claudeSessionId' = claudeSessionId)
         /\ (OnClaudeCancel /\ ~aborted[j] /\ (\A k \in Invocations : k > j => ipc[k] = "idle"))
              => aborted'[j]]_vars

\* C30: in the step in which the exit waiter learns that waiting for the exit
\* status failed, every error callback registered for the process is invoked
\* once with the cause of the failure, no completion callback is invoked, and
\* the handle is out of the registry afterwards.
C30_WaitFailureReported ==
  [][\A p \in Procs :
       (/\ status'[p] = "rejected" /\ waiter'[p]
        /\ (status[p] # "rejected" \/ ~waiter[p]))
         => /\ errorLog'[p] =
                 errorLog[p] \o [k \in 1..errorCallbacks[p] |-> [cb |-> k, error |-> "wait failed"]]
            /\ completeLog'[p] = completeLog[p]
            /\ p \notin runningProcesses']_vars

\* The exit wait of a process with a completion callback and an error callback
\* failed while a killProcess call was waiting: the error callback ran, the
\* completion callback did not, the handle is gone and the kill reported failure.
C30_Witness ==
  \E p \in Procs :
    /\ status[p] = "rejected"
    /\ completeCallbacks[p] # <<>> /\ completeLog[p] = <<>>
    /\ errorCallbacks[p] >= 1
    /\ errorLog[p] = <<[cb |-> 1, error |-> "wait failed"]>>
    /\ p \notin runningProcesses
    /\ \E k \in Kills : ktarget[k] = p /\ kret[k] = "false"

\* C31: a read error on one stream of a process ends only that stream's
\* reader and changes nothing else: no completion or error callback is
\* invoked by it, the output and the registry stay as they are; the reader of
\* the other stream can still take what waits in its pipe and delivers it; and
\* when the exit is observed the completion callbacks are invoked with the
\* exit code, as without the read error, and no error callback is.
C31_ReadErrorIsLocal ==
  [][\A p \in Procs : \A s \in Streams :
       /\ ReadError(p, s) =>
            /\ readerFailed'[p] = readerFailed[p] \cup {s}
            /\ UNCHANGED <<completeLog, errorLog, output, outputLog, pipe,
                           runningProcesses, status>>
       /\ (s \in readerFailed[p]) =>
            \A t \in Streams \ readerFailed[p] :
              /\ pipe[p][t] # <<>> => ENABLED ReaderRead(p, t, 1)
              /\ \A n \in 1..MaxOutput : ReaderRead(p, t, n) =>
                   /\ output'[p] = output[p] \o Decode(SubSeq(pipe[p][t], 1, n))
                   /\ Len(outputLog'[p]) = Len(outputLog[p]) + outputCallbacks[p]
       /\ (s \in readerFailed[p] /\ StatusResolve(p)) =>
            /\ completeLog'[p] =
                 completeLog[p] \o [k \in 1..Len(completeCallbacks[p]) |->
                                      [cb |-> k, code |-> exitCode[p]]]
            /\ errorLog'[p] = <<>>
            /\ p \notin runningProcesses']_vars

\* The stderr reader of a process failed; afterwards its stdout was still read
\* and delivered, and the process completed: the completion callback ran and
\* no error callback did.
C31_Witness ==
  \E p \in Procs :
    /\ readerFailed[p] = {"stderr"}
    /\ pipe[p]["stderr"] # <<>>
    /\ written[p]["stdout"] # <<>> /\ pipe[p]["stdout"] = <<>>
    /\ \E n \in DOMAIN outputLog[p] : outputLog[p][n].stream = "stdout"
    /\ completeLog[p] # <<>> /\ errorLog[p] = <<>> /\ errorCallbacks[p] >= 1

\* the step is an event of process h: its exit, the outcome of its exit wait, a
\* read error, an input sent to it, a kill of it or that kill's timer
Concerns(h) ==
  \/ \E code \in ExitCodes : ProcExit(h, code)
  \/ StatusResolve(h)
  \/ StatusReject(h)
  \/ \E stream \in Streams : ReadError(h, stream)
  \/ \E text \in Texts : SendInput(h, text)
  \/ \E k \in Kills : KillProcess(k, h)
  \/ \E k \in Kills : ktarget[k] = h /\ KillTimerFire(k)

\* C32: an event of process h leaves every other process as it was: its place
\* in the registry, its subscribers, its output and readers, its stdin, the
\* signals sent to it and the kills waiting on it; and it leaves the
\* invocation controller and every invocation's signal untouched.
C32_ProcessEventsAreLocal ==
  [][\A h \in Procs : Concerns(h) =>
       /\ \A q \in Procs \ {h} :
            /\ (q \in runningProcesses') <=> (q \in runningProcesses)
            /\ completeCallbacks'[q] = completeCallbacks[q]
            /\ errorCallbacks'[q] = errorCallbacks[q]
            /\ outputCallbacks'[q] = outputCallbacks[q]
            /\ completeLog'[q] = completeLog[q]
            /\ errorLog'[q] = errorLog[q]
            /\ output'[q] = output[q]
            /\ readerFailed'[q] = readerFailed[q]
            /\ stdinLog'[q] = stdinLog[q]
            /\ sigLog'[q] = sigLog[q]
            /\ os'[q] = os[q] /\ status'[q] = status[q]
            /\ \A k \in Kills : ktarget[k] = q =>
                 (kpc'[k] = kpc[k] /\ ktimer'[k] = ktimer[k] /\ kret'[k] = kret[k])
       /\ UNCHANGED <<claudeController, aborted>>]_vars

\* Two processes are registered and running; the first was sent input, was
\* killed up to SIGKILL and had a read error, and nothing reached the second.
C32_Witness ==
  /\ {1, 2} \subseteq runningProcesses
  /\ os[1] = "running" /\ os[2] = "running"
  /\ sigLog[1] = <<"SIGTERM", "SIGKILL">> /\ stdinLog[1] # <<>>
  /\ readerFailed[1] # {}
  /\ sigLog[2] = <<>> /\ stdinLog[2] = <<>> /\ readerFailed[2] = {}

\* C33: during an attempt of a call with an onStreamJson callback, the
\* callback has been called with exactly the events received so far, each
\* once, unchanged and in the order of the stream: an event that arrives while
\* the signal is not aborted is appended to what was forwarded; and no event
\* is forwarded once the signal is aborted.
C33_EventsForwardedOnceInOrder ==
  [][\A i \in Invocations :
       /\ ~lateForward'[i]
       /\ call'[i].onStreamJson => forwarded'[i] = currentMessages'[i]
       /\ ~call'[i].onStreamJson => forwarded'[i] = <<>>
       /\ \A ev \in ClientEvents :
            (StreamEvent(i, ev) /\ ~aborted[i] /\ call[i].onStreamJson)
              => forwarded'[i] = Append(forwarded[i], ev)
       /\ (Streaming(i) /\ aborted[i] /\ Streaming(i)')
            => forwarded'[i] = forwarded[i]]_vars

\* The callback of a running attempt has received two different events, and
\* the signal has since been aborted.
C33_Witness ==
  \E i \in Invocations :
    /\ Streaming(i) /\ call[i].onStreamJson /\ aborted[i]
    /\ Len(forwarded[i]) = 2 /\ forwarded[i][1] # forwarded[i][2]
    /\ forwarded[i] = currentMessages[i]

\* C34: an attempt whose controller's signal is aborted while it consumes its
\* stream is followed by the return of the call, and the call returns the
\* cancelled outcome.
C34_CancelledCallReturns ==
  \A i \in Invocations :
    (Streaming(i) /\ aborted[i]) ~> (ipc[i] = "done" /\ result[i].status = "cancelled")

\* The shutdown aborted the controller of a handler's call while its retry was
\* consuming its stream.
C34_Witness ==
  \E i \in Invocations :
    /\ ipc[i] = "attempt2" /\ aborted[i] /\ call[i].handler
    /\ bot = "stopping"
    /\ currentMessages[i] # <<>>

\* the session_id of the last event of s that carries one, undefined when no
\* event of s carries one
LastSessionId(s) ==
  LET idx == {n \in DOMAIN s : s[n].session_id # Undefined} IN
  IF idx = {} THEN Undefined
  ELSE s[CHOOSE n \in idx : \A m \in idx : m <= n].session_id

\* C35: the session id of a normally completed call is the session_id of the
\* last event carrying one that the stream of the attempt producing the result
\* yielded, undefined when no event of that attempt carried one; a cancelled
\* call returns no session id.
C35_SessionIdIsLastCarried ==
  [][\A i \in Invocations :
       (Streaming(i) /\ ipc'[i] = "done") =>
         /\ result'[i].status = "ok" =>
              result'[i].sessionId = LastSessionId(streamed[i])
         /\ result'[i].status = "cancelled" => result'[i].sessionId = Undefined]_vars

\* A call completed normally on a stream whose last event carried no session
\* id (it has no cost either) after a result event that carried one: the
\* returned id is the one of that earlier event.
C35_Witness ==
  \E i \in Invocations :
    /\ ipc[i] = "done" /\ result[i].status = "ok"
    /\ result[i].sessionId = EvResult.session_id
    /\ result[i].cost = Undefined

\* C36: sendInput on a registered handle returns true exactly when it wrote, and
\* then it wrote the text followed by one newline to that process's stdin and
\* nothing else; when the process has exited while still registered the write
\* fails and the call returns false, having written nothing; the registry is
\* the same before and after the call.
C36_SendInputWritesLine ==
  [][\A h \in HandleInputs, text \in Texts :
       (SendInput(h, text) /\ RegistryHas(runningProcesses, h)) =>
         /\ runningProcesses' = runningProcesses
         /\ inputReturn' \in {"true", "false"}
         /\ inputReturn' = "true" =>
              /\ stdinLog'[h] = Append(stdinLog[h], <<text, "\n">>)
              /\ \A p \in Procs \ {h} : stdinLog'[p] = stdinLog[p]
         /\ inputReturn' = "false" => stdinLog' = stdinLog
         /\ os[h] = "exited" => inputReturn' = "false"
         /\ os[h] = "running" => inputReturn' = "true"]_vars

\* One process received a line, and a later input to another process that had
\* exited but was still registered was refused.
C36_Witness ==
  \E p, q \in Procs :
    /\ p # q
    /\ stdinLog[p] = << <<"y", "\n">> >>
    /\ q \in runningProcesses /\ os[q] = "exited" /\ stdinLog[q] = <<>>
    /\ inputReturn = "false"

\* C37: a call that returned, normally or cancelled, reports the fallback model
\* exactly when it started a retry, and the default model otherwise.
C37_FallbackIffRetry ==
  \A i \in Invocations :
    (ipc[i] = "done" /\ result[i].status \in {"ok", "cancelled"}) =>
      /\ result[i].modelUsed \in {ModelDefault, ModelFallback}
      /\ result[i].modelUsed = ModelFallback <=> queries[i] = 2
      /\ result[i].modelUsed = ModelDefault <=> queries[i] = 1

\* A call was cancelled during its retry, whose stream it had asked for the
\* fallback model, and reports the fallback model.
C37_Witness ==
  \E i \in Invocations :
    /\ ipc[i] = "done" /\ result[i].status = "cancelled"
    /\ queries[i] = 2 /\ result[i].modelUsed = ModelFallback
    /\ queryOptions[i][2].model = FallbackModelId

\* C38: when the stream of an attempt ends without having yielded an event and
\* the call was not cancelled, the call returns normally with the no-response
\* text and with undefined cost and duration.
C38_EmptyStreamReturnsSentinel ==
  [][\A i \in Invocations :
       (StreamEnd(i) /\ streamed[i] = <<>> /\ ~aborted[i]) =>
         /\ ipc'[i] = "done"
         /\ result'[i].status = "ok"
         /\ result'[i].response = NoResponse
         /\ result'[i].cost = Undefined
         /\ result'[i].duration = Undefined]_vars

\* C39: whenever the timer of a killProcess call sends the forceful signal, the
\* target process has not exited and that killProcess call has not returned.
C39_ForcefulSignalOnlyWhileWaiting ==
  [][\A k \in Kills :
       (KillTimerFire(k) /\ sigLog' # sigLog) =>
         /\ os[ktarget[k]] = "running"
         /\ kpc[k] = "waiting"]_vars

\* C40: the id that cleanSessionId returns is a fixed point of cleanSessionId,
\* contains no carriage return and no line feed, and neither starts nor ends
\* with whitespace or a backtick.
C40_CleanSessionIdIdempotent ==
  \A i \in Invocations :
    (queries[i] >= 1 /\ ~call[i].continueMode) =>
      LET r == queryOptions[i][1].resume IN
      /\ cleanSessionId(r) = r
      /\ \A n \in DOMAIN r : r[n] \notin {"\r", "\n"}
      /\ r # <<>> => /\ r[1] \notin Whitespace \cup {Backtick}
                     /\ r[Len(r)] \notin Whitespace \cup {Backtick}

====
